---- MODULE Spec2Model ----
(***************************************************************************)
(* Text runs of alacritty_terminal/src/text_run.rs: the run boundary       *)
(* predicate (RunStart::belongs_to_text_run), the colour resolver          *)
(* (TextRun::color_to_rgb), the cursor constructor                         *)
(* (TextRun::from_cursor_key), run identity (Hash / PartialEq for TextRun) *)
(* and the loop that walks one line of cells and builds the runs.          *)
(*                                                                         *)
(* Four specifications share the variables:                                *)
(*   Spec          the run builder walking one line of cells               *)
(*   SpecResolve   color_to_rgb and from_cursor_key on every RunStart      *)
(*   SpecBelongs   belongs_to_text_run on every (RunStart, cell, selected) *)
(*   SpecIdentity  eq and hash on every pair of TextRuns                   *)
(***************************************************************************)
EXTENDS Integers, Sequences, FiniteSets, TLC

VARIABLES config, colors, start, run, runs, cells, op, arg, ret, pc

vars == <<config, colors, start, run, runs, cells, op, arg, ret, pc>>

(***************************************************************************)
(* Bounds                                                                  *)
(***************************************************************************)
\* Number of columns of the line the builder walks.
MaxCols == 3

(***************************************************************************)
(* Value domains                                                           *)
(***************************************************************************)
\* Option<T>::None
None == "None"

\* term::color::Rgb: K is black, W is white, R is red.
Rgbs == {"K", "W", "R"}

\* ansi::NamedColor, the two names text_run.rs indexes the palette with.
NamedColors == {"Foreground", "Background"}

\* ansi::Color: a raw colour reference, Named(NamedColor) or Spec(Rgb).
Named(n) == [kind |-> "Named", name |-> n]

SpecColor(rgb) == [kind |-> "Spec", rgb |-> rgb]

Colors == {Named(n) : n \in NamedColors} \cup {SpecColor(c) : c \in Rgbs}

\* term::color::List: the palette, indexed by NamedColor.
Palettes == [NamedColors -> Rgbs]

\* term::cell::Flags: a bit set; INVERSE and HIDDEN are the bits text_run.rs reads.
FlagBits == {"INVERSE", "HIDDEN"}

FlagSets == SUBSET FlagBits

\* Config: colors.selection.background and colors.selection.text, both Option<Rgb>.
Configs == [selection_background : Rgbs \cup {None}, selection_text : Rgbs \cup {None}]

\* f32 values of bg_alpha, by name.
F32s == {"0.0", "-0.0", "1.0"}

\* f32::to_bits: the IEEE-754 pattern as <<sign, exponent, mantissa>>.
to_bits(x) == CASE x = "0.0" -> <<0, 0, 0>>
                [] x = "-0.0" -> <<1, 0, 0>>
                [] x = "1.0" -> <<0, 127, 0>>

\* f32 == f32: numeric comparison, under which the two zeros are equal.
F32NumEq(x, y) == (x = y) \/ ({x, y} = {"0.0", "-0.0"})

\* index::Line values a RunStart or a cell can carry.
Lines == {0, 1}

\* index::Column values of the line the builder walks.
Columns == 0 .. (MaxCols - 1)

\* index::Column values a RunStart or a cell is drawn with outside the builder.
StartColumns == {0, 2}

\* term::CursorKey
CursorKeys == {"Block", "Beam"}

\* struct RunStart
RunStarts == [line : Lines, column : StartColumns, fg : Colors, bg : Colors,
              selected : BOOLEAN, flags : FlagSets]

NoStart == [none |-> TRUE]

NoRun == [none |-> TRUE]

\* grid::Indexed<Cell>: position, character, raw colours and flags.
CellChars == {"a", "b"}

Cells == [line : Lines, column : StartColumns, c : CellChars, fg : Colors, bg : Colors,
          flags : FlagSets]

(***************************************************************************)
(* Palette lookups of RenderableCell (term/mod.rs)                         *)
(***************************************************************************)
\* RenderableCell::compute_fg_rgb: Spec(rgb) is itself, Named(n) is colors[n].
\* The dim/bold remapping reads DIM and BOLD only, which FlagBits leaves out.
compute_fg_rgb(cfg, list, fg, flags) ==
    IF fg.kind = "Spec" THEN fg.rgb ELSE list[fg.name]

\* RenderableCell::compute_bg_rgb
compute_bg_rgb(list, bg) ==
    IF bg.kind = "Spec" THEN bg.rgb ELSE list[bg.name]

\* RenderableCell::compute_bg_alpha: transparent for the default background only.
compute_bg_alpha(bg) ==
    IF bg = Named("Background") THEN "0.0" ELSE "1.0"

(***************************************************************************)
(* TextRun::color_to_rgb                                                   *)
(***************************************************************************)
\* Lines 126-128: the three lookups.
LookupRgb(cfg, list, s) ==
    [fg |-> compute_fg_rgb(cfg, list, s.fg, s.flags),
     bg |-> compute_bg_rgb(list, s.bg),
     bg_alpha |-> compute_bg_alpha(s.bg)]

\* InvertRgb with the inversion tested before the selection background override.
InvertRgb_InverseFirst(cfg, list, s, l) ==
    IF s.selected # ("INVERSE" \in s.flags)
    THEN IF l.fg = l.bg /\ "HIDDEN" \notin s.flags
         THEN [fg |-> list["Background"], bg |-> list["Foreground"], bg_alpha |-> "1.0"]
         ELSE [fg |-> l.bg, bg |-> l.fg, bg_alpha |-> "1.0"]
    ELSE IF s.selected /\ cfg.selection_background # None
         THEN [l EXCEPT !.bg = cfg.selection_background, !.bg_alpha = "1.0"]
         ELSE l

\* InvertRgb revealing whenever the lookups are equal, HIDDEN or not.
InvertRgb_NoHidden(cfg, list, s, l) ==
    IF s.selected /\ cfg.selection_background # None
    THEN [l EXCEPT !.bg = cfg.selection_background, !.bg_alpha = "1.0"]
    ELSE IF s.selected # ("INVERSE" \in s.flags)
         THEN IF l.fg = l.bg
              THEN [fg |-> list["Background"], bg |-> list["Foreground"], bg_alpha |-> "1.0"]
              ELSE [fg |-> l.bg, bg |-> l.fg, bg_alpha |-> "1.0"]
         ELSE l

\* InvertRgb applying the selection background override to unselected cells too.
InvertRgb_OverrideUnselected(cfg, list, s, l) ==
    IF cfg.selection_background # None
    THEN [l EXCEPT !.bg = cfg.selection_background, !.bg_alpha = "1.0"]
    ELSE IF s.selected # ("INVERSE" \in s.flags)
         THEN IF l.fg = l.bg /\ "HIDDEN" \notin s.flags
              THEN [fg |-> list["Background"], bg |-> list["Foreground"], bg_alpha |-> "1.0"]
              ELSE [fg |-> l.bg, bg |-> l.fg, bg_alpha |-> "1.0"]
         ELSE l

\* Lines 130-146: selection background override, else inversion (reveal or swap).
InvertRgb(cfg, list, s, l) ==
    IF s.selected /\ cfg.selection_background # None
    THEN [l EXCEPT !.bg = cfg.selection_background, !.bg_alpha = "1.0"]
    ELSE IF s.selected # ("INVERSE" \in s.flags)
         THEN IF l.fg = l.bg /\ "HIDDEN" \notin s.flags
              THEN [fg |-> list["Background"], bg |-> list["Foreground"], bg_alpha |-> "1.0"]
              ELSE [fg |-> l.bg, bg |-> l.fg, bg_alpha |-> "1.0"]
         ELSE l

\* Lines 147-149: selection text override, applied last.
OverrideText(cfg, s, r) ==
    IF s.selected /\ cfg.selection_text # None
    THEN [r EXCEPT !.fg = cfg.selection_text]
    ELSE r

\* color_to_rgb with the selection text override applied before the inversion.
color_to_rgb_TextFirst(cfg, list, s) ==
    InvertRgb(cfg, list, s, OverrideText(cfg, s, LookupRgb(cfg, list, s)))

color_to_rgb(cfg, list, s) ==
    OverrideText(cfg, s, InvertRgb(cfg, list, s, LookupRgb(cfg, list, s)))

(***************************************************************************)
(* TextRun and its constructors                                            *)
(***************************************************************************)
\* TextRunContent::Cursor(CursorKey)
Cursor(key) == [kind |-> "Cursor", key |-> key]

\* TextRunContent::CharRun(String, Vec<[char; MAX_ZEROWIDTH_CHARS]>)
CharRun(text, zerowidth) == [kind |-> "CharRun", text |-> text, zerowidth |-> zerowidth]

\* from_cursor_key with an exclusive end column.
from_cursor_key_WideSpan(cfg, list, s, cursor) ==
    LET rgb == color_to_rgb(cfg, list, s)
    IN  [line |-> s.line, span |-> <<s.column, s.column + 1>>, content |-> Cursor(cursor),
         fg |-> rgb.fg, bg |-> rgb.bg, bg_alpha |-> rgb.bg_alpha,
         flags |-> s.flags, data |-> None]

\* from_cursor_key with the span's ends the wrong way round.
from_cursor_key_SwappedSpan(cfg, list, s, cursor) ==
    LET rgb == color_to_rgb(cfg, list, s)
    IN  [line |-> s.line, span |-> <<s.column + 1, s.column>>, content |-> Cursor(cursor),
         fg |-> rgb.fg, bg |-> rgb.bg, bg_alpha |-> rgb.bg_alpha,
         flags |-> s.flags, data |-> None]

\* TextRun::from_cursor_key
from_cursor_key(cfg, list, s, cursor) ==
    LET rgb == color_to_rgb(cfg, list, s)
    IN  [line |-> s.line,
         span |-> <<s.column, s.column>>,
         content |-> Cursor(cursor),
         fg |-> rgb.fg,
         bg |-> rgb.bg,
         bg_alpha |-> rgb.bg_alpha,
         flags |-> s.flags,
         data |-> None]

(***************************************************************************)
(* RunStart::belongs_to_text_run                                           *)
(***************************************************************************)
\* belongs_to_text_run without the flags comparison.
belongs_to_text_run_NoFlags(self, cell, selected) ==
    /\ self.line = cell.line
    /\ self.fg = cell.fg
    /\ self.bg = cell.bg
    /\ self.selected = selected

\* belongs_to_text_run without the foreground comparison.
belongs_to_text_run_NoFg(self, cell, selected) ==
    /\ self.line = cell.line
    /\ self.bg = cell.bg
    /\ self.flags = cell.flags
    /\ self.selected = selected

\* belongs_to_text_run without the selection comparison.
belongs_to_text_run_NoSelected(self, cell, selected) ==
    /\ self.line = cell.line
    /\ self.fg = cell.fg
    /\ self.bg = cell.bg
    /\ self.flags = cell.flags

belongs_to_text_run(self, cell, selected) ==
    /\ self.line = cell.line
    /\ self.fg = cell.fg
    /\ self.bg = cell.bg
    /\ self.flags = cell.flags
    /\ self.selected = selected

(***************************************************************************)
(* Hash and PartialEq for TextRun                                          *)
(***************************************************************************)
\* Column - Column on usize: a start past the end underflows (-1 here).
ColumnSub(a, b) == IF b <= a THEN a - b ELSE -1

\* The values hash() feeds the hasher, in order.
hash(self) ==
    <<ColumnSub(self.span[2], self.span[1]), self.content, to_bits(self.bg_alpha), self.flags>>

\* eq comparing bg_alpha as numbers instead of bit patterns.
eq_NumericAlpha(self, other) ==
    /\ ColumnSub(self.span[2], self.span[1]) = ColumnSub(other.span[2], other.span[1])
    /\ self.content = other.content
    /\ F32NumEq(self.bg_alpha, other.bg_alpha)
    /\ self.flags = other.flags

eq(self, other) ==
    /\ ColumnSub(self.span[2], self.span[1]) = ColumnSub(other.span[2], other.span[1])
    /\ self.content = other.content
    /\ to_bits(self.bg_alpha) = to_bits(other.bg_alpha)
    /\ self.flags = other.flags

(***************************************************************************)
(* Spec: the run builder walking the cells of one line left to right       *)
(***************************************************************************)
\* The characters of the line: a b a b ...
LineText(col) == IF col % 2 = 0 THEN "a" ELSE "b"

\* Raw colours and flags the cells of the walked line are drawn from.
LineFg == {Named("Foreground"), SpecColor("W")}

LineBg == {Named("Background")}

LineFlags == {{}, {"INVERSE"}}

\* Selection overrides the walked line is configured with: none, or red.
LineConfigs == [selection_background : {None, "R"}, selection_text : {None, "R"}]

\* The theme of the walked line: white on black.
Theme == [n \in NamedColors |-> IF n = "Foreground" THEN "W" ELSE "K"]

\* The RunStart a cell opens a run with.
StartOf(cell, selected) ==
    [line |-> cell.line, column |-> cell.column, fg |-> cell.fg, bg |-> cell.bg,
     selected |-> selected, flags |-> cell.flags]

\* The character run opened at a cell, its colours resolved at open time.
OpenAt(cfg, list, cell, selected) ==
    LET rgb == color_to_rgb(cfg, list, StartOf(cell, selected))
    IN  [line |-> cell.line,
         span |-> <<cell.column, cell.column>>,
         content |-> CharRun(<<cell.c>>, <<<<>>>>),
         fg |-> rgb.fg,
         bg |-> rgb.bg,
         bg_alpha |-> rgb.bg_alpha,
         flags |-> cell.flags,
         data |-> None]

\* The open run extended by a continuing cell.
Extend(r, cell) ==
    [r EXCEPT !.span = <<r.span[1], cell.column>>,
              !.content = CharRun(Append(r.content.text, cell.c),
                                  Append(r.content.zerowidth, <<>>))]

\* The next cell of the line, at the column after the cells walked so far.
NextCell(fg, bg, flags) ==
    [line |-> pc.line, column |-> Len(cells), c |-> LineText(Len(cells)),
     fg |-> fg, bg |-> bg, flags |-> flags]

Walked(cell, selected, cursor) == [cell |-> cell, selected |-> selected, cursor |-> cursor]

CursorDrawn == \E i \in 1 .. Len(cells) : cells[i].cursor # None

Init ==
    /\ config \in LineConfigs
    /\ colors = Theme
    /\ start = NoStart
    /\ run = NoRun
    /\ runs = <<>>
    /\ cells = <<>>
    /\ op = "none"
    /\ arg = None
    /\ ret = None
    /\ pc \in [at : {"walk"}, line : Lines]

\* First cell of the line, or first cell after a cursor: open a run.
OpenRun(cell, selected) ==
    /\ pc.at = "walk"
    /\ Len(cells) < MaxCols
    /\ start = NoStart
    /\ start' = StartOf(cell, selected)
    /\ run' = OpenAt(config, colors, cell, selected)
    /\ cells' = Append(cells, Walked(cell, selected, None))
    /\ op' = "open"
    /\ UNCHANGED <<config, colors, runs, arg, ret, pc>>

\* The cell belongs to the open run: append it.
ContinueRun(cell, selected) ==
    /\ pc.at = "walk"
    /\ Len(cells) < MaxCols
    /\ start # NoStart
    /\ belongs_to_text_run(start, cell, selected)
    /\ run' = Extend(run, cell)
    /\ cells' = Append(cells, Walked(cell, selected, None))
    /\ op' = "append"
    /\ UNCHANGED <<config, colors, start, runs, arg, ret, pc>>

\* The cell does not belong: finalize the open run, open a new one at the cell.
SplitRun(cell, selected) ==
    /\ pc.at = "walk"
    /\ Len(cells) < MaxCols
    /\ start # NoStart
    /\ ~belongs_to_text_run(start, cell, selected)
    /\ runs' = Append(runs, run)
    /\ start' = StartOf(cell, selected)
    /\ run' = OpenAt(config, colors, cell, selected)
    /\ cells' = Append(cells, Walked(cell, selected, None))
    /\ op' = "split"
    /\ UNCHANGED <<config, colors, arg, ret, pc>>

\* The cursor is on the cell: finalize the open run, emit the cursor's own run.
CursorStep(cell, selected, key) ==
    /\ pc.at = "walk"
    /\ Len(cells) < MaxCols
    /\ ~CursorDrawn
    /\ runs' = Append(IF start = NoStart THEN runs ELSE Append(runs, run),
                      from_cursor_key(config, colors, StartOf(cell, selected), key))
    /\ start' = NoStart
    /\ run' = NoRun
    /\ cells' = Append(cells, Walked(cell, selected, key))
    /\ op' = "cursor"
    /\ UNCHANGED <<config, colors, arg, ret, pc>>

\* End of line: finalize whatever run is open.
EndLine ==
    /\ pc.at = "walk"
    /\ Len(cells) > 0
    /\ runs' = IF start = NoStart THEN runs ELSE Append(runs, run)
    /\ start' = NoStart
    /\ run' = NoRun
    /\ pc' = [pc EXCEPT !.at = "done"]
    /\ op' = "end"
    /\ UNCHANGED <<config, colors, cells, arg, ret>>

Next ==
    \/ \E fg \in LineFg, bg \in LineBg, flags \in LineFlags, selected \in BOOLEAN :
          OpenRun(NextCell(fg, bg, flags), selected)
    \/ \E fg \in LineFg, bg \in LineBg, flags \in LineFlags, selected \in BOOLEAN :
          ContinueRun(NextCell(fg, bg, flags), selected)
    \/ \E fg \in LineFg, bg \in LineBg, flags \in LineFlags, selected \in BOOLEAN :
          SplitRun(NextCell(fg, bg, flags), selected)
    \/ \E fg \in LineFg, bg \in LineBg, flags \in LineFlags, selected \in BOOLEAN :
          \E key \in CursorKeys : CursorStep(NextCell(fg, bg, flags), selected, key)
    \/ EndLine

Spec == Init /\ [][Next]_vars

(***************************************************************************)
(* SpecResolve: color_to_rgb and from_cursor_key applied to a RunStart     *)
(***************************************************************************)
InitResolve ==
    /\ config \in Configs
    /\ colors \in Palettes
    /\ start \in RunStarts
    /\ run = NoRun
    /\ runs = <<>>
    /\ cells = <<>>
    /\ op = "none"
    /\ arg = None
    /\ ret = None
    /\ pc = [at |-> "call", line |-> start.line]

CallColorToRgb ==
    /\ pc.at = "call"
    /\ op' = "color_to_rgb"
    /\ ret' = color_to_rgb(config, colors, start)
    /\ pc' = [pc EXCEPT !.at = "done"]
    /\ UNCHANGED <<config, colors, start, run, runs, cells, arg>>

CallFromCursorKey(key) ==
    /\ pc.at = "call"
    /\ op' = "from_cursor_key"
    /\ arg' = key
    /\ ret' = from_cursor_key(config, colors, start, key)
    /\ pc' = [pc EXCEPT !.at = "done"]
    /\ UNCHANGED <<config, colors, start, run, runs, cells>>

NextResolve ==
    \/ CallColorToRgb
    \/ \E key \in CursorKeys : CallFromCursorKey(key)

SpecResolve == InitResolve /\ [][NextResolve]_vars

(***************************************************************************)
(* SpecBelongs: belongs_to_text_run applied to a RunStart and a cell       *)
(***************************************************************************)
InitBelongs ==
    /\ config = [selection_background |-> None, selection_text |-> None]
    /\ colors = Theme
    /\ start \in RunStarts
    /\ run = NoRun
    /\ runs = <<>>
    /\ cells = <<>>
    /\ op = "none"
    /\ arg = None
    /\ ret = None
    /\ pc = [at |-> "call", line |-> start.line]

CallBelongs(cell, selected) ==
    /\ pc.at = "call"
    /\ op' = "belongs_to_text_run"
    /\ arg' = [cell |-> cell, selected |-> selected]
    /\ ret' = belongs_to_text_run(start, cell, selected)
    /\ pc' = [pc EXCEPT !.at = "done"]
    /\ UNCHANGED <<config, colors, start, run, runs, cells>>

NextBelongs ==
    /\ pc.at = "call"
    /\ \E cell \in Cells, selected \in BOOLEAN : CallBelongs(cell, selected)

SpecBelongs == InitBelongs /\ [][NextBelongs]_vars

(***************************************************************************)
(* SpecIdentity: eq and hash applied to two TextRuns                       *)
(***************************************************************************)
\* struct TextRun, over small value sets; "Shaped" is a filled data cache.
IdSpans == {<<0, 0>>, <<1, 1>>, <<0, 1>>}

IdContents == {Cursor("Block"), CharRun(<<"a">>, <<<<>>>>), CharRun(<<"b">>, <<<<>>>>)}

TextRuns == [line : Lines, span : IdSpans, content : IdContents, fg : {"K", "W"},
             bg : {"K", "W"}, bg_alpha : F32s, flags : LineFlags, data : {None, "Shaped"}]

InitIdentity ==
    /\ config = [selection_background |-> None, selection_text |-> None]
    /\ colors = Theme
    /\ start = NoStart
    /\ run \in TextRuns
    /\ runs = <<>>
    /\ cells = <<>>
    /\ op = "none"
    /\ arg = None
    /\ ret = None
    /\ pc = [at |-> "call", line |-> run.line]

\* A cache probe: both runs are hashed, then compared.
CallEqHash(other) ==
    /\ pc.at = "call"
    /\ op' = "eq"
    /\ arg' = other
    /\ ret' = [eq |-> eq(run, other), hash_self |-> hash(run), hash_other |-> hash(other)]
    /\ pc' = [pc EXCEPT !.at = "done"]
    /\ UNCHANGED <<config, colors, start, run, runs, cells>>

NextIdentity ==
    /\ pc.at = "call"
    /\ \E other \in TextRuns : CallEqHash(other)

SpecIdentity == InitIdentity /\ [][NextIdentity]_vars

(***************************************************************************)
(* Properties                                                              *)
(***************************************************************************)
\* The fields in which the candidate of a belongs_to_text_run call differs
\* from the RunStart, the selection state included.
Mismatches ==
    {f \in {"line", "fg", "bg", "flags"} : start[f] # arg.cell[f]}
        \cup (IF start.selected # arg.selected THEN {"selected"} ELSE {})

\* C1: belongs_to_text_run is true exactly when line, fg, bg, flags and the
\* selection state all match; any single mismatch makes it false, and the
\* column is not looked at.
Thm_C1 ==
    op = "belongs_to_text_run" => (ret <=> (Mismatches = {}))

\* C1 witness: flags alone differ (and the column too), and the call is false.
Wit_C1 ==
    /\ op = "belongs_to_text_run"
    /\ Mismatches = {"flags"}
    /\ start.column # arg.cell.column
    /\ ret = FALSE

\* Runs produced so far, the open one included.
AllRuns == IF start = NoStart THEN runs ELSE Append(runs, run)

\* What the walked cell i was compared on: the raw references.
RawKey(i) ==
    <<cells[i].cell.fg, cells[i].cell.bg, cells[i].cell.flags, cells[i].selected>>

\* The resolved render colours of walked cell i, with its flags and selection.
ResolvedKey(i) ==
    LET rgb == color_to_rgb(config, colors, StartOf(cells[i].cell, cells[i].selected))
    IN  <<rgb.fg, rgb.bg, cells[i].cell.flags, cells[i].selected>>

\* Number of maximal contiguous subsequences of the walked cells with constant key.
Segments(Key(_)) ==
    IF cells = <<>> THEN 0
    ELSE 1 + Cardinality({i \in 2 .. Len(cells) : Key(i) # Key(i - 1)})

\* C2 as stated: on a line of character cells the number of runs is the number
\* of maximal subsequences with constant (resolved fg, resolved bg, flags,
\* selected), so cells that differ in raw references only share a run.
Orig_C2 ==
    ~CursorDrawn => Len(AllRuns) = Segments(ResolvedKey)

\* C2 amended: the number of runs is the number of maximal subsequences with
\* constant (raw fg, raw bg, flags, selected); adjacent cells whose raw
\* references differ are in different runs even when they resolve alike.
Thm_C2 ==
    ~CursorDrawn => Len(AllRuns) = Segments(RawKey)

\* C2 witness: a finished line where two adjacent cells differ in the raw
\* foreground only, resolve to the same key, and are split into two runs.
Wit_C2 ==
    /\ pc.at = "done"
    /\ ~CursorDrawn
    /\ Len(cells) = 2
    /\ RawKey(1) # RawKey(2)
    /\ ResolvedKey(1) = ResolvedKey(2)
    /\ Len(runs) = 2

\* C3: selected with a selection-background override: bg is the override,
\* bg_alpha is 1.0, no inversion; fg is the lookup unless the text override.
Thm_C3 ==
    (op = "color_to_rgb" /\ start.selected /\ config.selection_background # None) =>
        /\ ret.bg = config.selection_background
        /\ ret.bg_alpha = "1.0"
        /\ ret.fg = IF config.selection_text # None
                    THEN config.selection_text
                    ELSE compute_fg_rgb(config, colors, start.fg, start.flags)

\* C3 witness: selected, INVERSE and HIDDEN set, override differs from both lookups.
Wit_C3 ==
    /\ op = "color_to_rgb"
    /\ start.selected
    /\ start.flags = {"INVERSE", "HIDDEN"}
    /\ config.selection_background # None
    /\ config.selection_text = None
    /\ compute_bg_rgb(colors, start.bg) # config.selection_background
    /\ compute_fg_rgb(config, colors, start.fg, start.flags) # config.selection_background
    /\ compute_bg_alpha(start.bg) = "0.0"
    /\ ret.bg = config.selection_background

\* selected XOR INVERSE
Inverted == start.selected # ("INVERSE" \in start.flags)

LookedUpFg == compute_fg_rgb(config, colors, start.fg, start.flags)

LookedUpBg == compute_bg_rgb(colors, start.bg)

\* The reveal case: equal lookups and HIDDEN unset.
Reveal == LookedUpFg = LookedUpBg /\ "HIDDEN" \notin start.flags

\* C4 as stated: whenever selected XOR INVERSE, bg_alpha is 1.0 and the result
\* is the reveal pair (theme background, theme foreground) or the swapped lookups.
Orig_C4 ==
    (op = "color_to_rgb" /\ Inverted) =>
        /\ ret.bg_alpha = "1.0"
        /\ IF Reveal
           THEN ret.fg = colors["Background"] /\ ret.bg = colors["Foreground"]
           ELSE ret.fg = LookedUpBg /\ ret.bg = LookedUpFg

\* C4 amended: whenever selected XOR INVERSE, bg_alpha is 1.0; when moreover the
\* selection-background override does not apply, bg is the theme foreground
\* (reveal) or the looked-up fg (swap), and fg is the theme background (reveal)
\* or the looked-up bg (swap) unless the selection-text override replaces it.
Thm_C4 ==
    (op = "color_to_rgb" /\ Inverted) =>
        /\ ret.bg_alpha = "1.0"
        /\ ~(start.selected /\ config.selection_background # None) =>
              /\ ret.bg = IF Reveal THEN colors["Foreground"] ELSE LookedUpFg
              /\ ret.fg = IF start.selected /\ config.selection_text # None
                          THEN config.selection_text
                          ELSE IF Reveal THEN colors["Background"] ELSE LookedUpBg

\* C4 witness: a reveal that differs from a swap, on a transparent background.
Wit_C4 ==
    /\ op = "color_to_rgb"
    /\ Inverted
    /\ ~start.selected
    /\ Reveal
    /\ compute_bg_alpha(start.bg) = "0.0"
    /\ ret.bg = colors["Foreground"]
    /\ ret.bg # LookedUpFg
    /\ ret.bg_alpha = "1.0"

\* C5: selection off and INVERSE unset: the result is the three lookups,
\* whatever the selection overrides and the HIDDEN flag are.
Thm_C5 ==
    (op = "color_to_rgb" /\ ~start.selected /\ "INVERSE" \notin start.flags) =>
        /\ ret = [fg |-> LookedUpFg, bg |-> LookedUpBg, bg_alpha |-> compute_bg_alpha(start.bg)]
        /\ \A cfg \in Configs, hidden \in SUBSET {"HIDDEN"} :
              color_to_rgb(cfg, colors, [start EXCEPT !.flags = hidden]) = ret

\* C5 witness: both overrides configured, HIDDEN set, equal lookups, alpha 0.0.
Wit_C5 ==
    /\ op = "color_to_rgb"
    /\ ~start.selected
    /\ start.flags = {"HIDDEN"}
    /\ config.selection_background # None
    /\ config.selection_text # None
    /\ LookedUpFg = LookedUpBg
    /\ config.selection_background # LookedUpBg
    /\ ret.bg_alpha = "0.0"

\* C6: selected with a selection-text override: fg is the override in every
\* branch; otherwise fg is what the resolver gives with no text override.
Thm_C6 ==
    op = "color_to_rgb" =>
        IF start.selected /\ config.selection_text # None
        THEN ret.fg = config.selection_text
        ELSE ret.fg = InvertRgb(config, colors, start, LookupRgb(config, colors, start)).fg

\* C6 witness: selected, swap branch, and the override differs from the bg
\* lookup the swap would have put in fg.
Wit_C6 ==
    /\ op = "color_to_rgb"
    /\ start.selected
    /\ config.selection_text # None
    /\ config.selection_background = None
    /\ Inverted
    /\ ~Reveal
    /\ LookedUpBg # config.selection_text
    /\ LookedUpFg # config.selection_text
    /\ ret.fg = config.selection_text

\* Two runs with the same width, content, bg_alpha value and flags.
SameIdentity(a, b) ==
    /\ a.span[2] - a.span[1] = b.span[2] - b.span[1]
    /\ a.content = b.content
    /\ a.bg_alpha = b.bg_alpha
    /\ a.flags = b.flags

\* C7: two runs are equal exactly when width, content, bg_alpha bits and flags
\* agree, and then the hasher is fed the same values; fg, bg, line, span
\* position and data play no part.
Thm_C7 ==
    op = "eq" =>
        /\ ret.eq <=> SameIdentity(run, arg)
        /\ SameIdentity(run, arg) => ret.hash_self = ret.hash_other

\* C7 witness: equal runs that differ in fg, bg, line, span position and data.
Wit_C7 ==
    /\ op = "eq"
    /\ ret.eq
    /\ ret.hash_self = ret.hash_other
    /\ run.fg # arg.fg
    /\ run.bg # arg.bg
    /\ run.line # arg.line
    /\ run.span # arg.span
    /\ run.data # arg.data

\* The run from_cursor_key must return, but for its span.
CursorRunAt(span) ==
    LET rgb == color_to_rgb(config, colors, start)
    IN  [line |-> start.line, span |-> span, content |-> Cursor(arg),
         fg |-> rgb.fg, bg |-> rgb.bg, bg_alpha |-> rgb.bg_alpha,
         flags |-> start.flags, data |-> None]

\* C8 as stated: the cursor run starts at the RunStart's column on its line,
\* has span width (span.1 - span.0) 1, content Cursor(key), the RunStart's
\* flags, no data and the colours of color_to_rgb.
Orig_C8 ==
    op = "from_cursor_key" =>
        /\ ret = CursorRunAt(ret.span)
        /\ ret.span[1] = start.column
        /\ ret.span[2] - ret.span[1] = 1

\* C8 amended: the cursor run has span (column, column): it covers the one
\* column of the RunStart, and its width span.1 - span.0 is 0; line, content,
\* flags, data and colours as stated.
Thm_C8 ==
    op = "from_cursor_key" =>
        /\ ret = CursorRunAt(<<start.column, start.column>>)
        /\ ret.span[1] .. ret.span[2] = {start.column}
        /\ ColumnSub(ret.span[2], ret.span[1]) = 0

\* C8 witness: a cursor on a selected, inverted cell away from column 0.
Wit_C8 ==
    /\ op = "from_cursor_key"
    /\ arg = "Beam"
    /\ start.column = 2
    /\ start.selected
    /\ "INVERSE" \in start.flags
    /\ ret.span = <<2, 2>>
    /\ ret.content = Cursor("Beam")

\* C9: every run has span.0 <= span.1, so the width subtraction does not
\* underflow, and every cell under the span is on the run's line.
Thm_C9 ==
    \A i \in 1 .. Len(AllRuns) :
        LET r == AllRuns[i]
        IN  /\ r.span[1] <= r.span[2]
            /\ ColumnSub(r.span[2], r.span[1]) = r.span[2] - r.span[1]
            /\ r.span[2] < Len(cells)
            /\ \A k \in r.span[1] .. r.span[2] : cells[k + 1].cell.line = r.line

\* C9 witness: a finished line with a two-column run followed by a cursor run.
Wit_C9 ==
    /\ pc.at = "done"
    /\ Len(runs) = 2
    /\ runs[1].span = <<0, 1>>
    /\ runs[2].content.kind = "Cursor"
    /\ runs[2].span = <<2, 2>>

\* C10: the colours of a run are those of each cell under it resolved alone,
\* at whatever line and column the cell is resolved.
Thm_C10 ==
    \A i \in 1 .. Len(AllRuns) :
        LET r == AllRuns[i]
        IN  \A k \in r.span[1] .. r.span[2], l \in Lines, c \in StartColumns :
                color_to_rgb(config, colors,
                             [StartOf(cells[k + 1].cell, cells[k + 1].selected)
                                 EXCEPT !.line = l, !.column = c])
                    = [fg |-> r.fg, bg |-> r.bg, bg_alpha |-> r.bg_alpha]

\* C10 witness: a finished line whose first run aggregates two selected cells
\* under a selection-text override, and whose second run resolves differently.
Wit_C10 ==
    /\ pc.at = "done"
    /\ config.selection_text # None
    /\ Len(runs) = 2
    /\ runs[1].span = <<0, 1>>
    /\ cells[1].selected
    /\ runs[1].content.kind = "CharRun"
    /\ runs[2].content.kind = "CharRun"
    /\ runs[2].fg # runs[1].fg

====
